---- MODULE Spec2Model ----
(***************************************************************************)
(* Model of scripts/build_catalog.mjs: the catalog builder that lists an   *)
(* organization's public repositories, filters them by allow/block list,   *)
(* probes each repository's published site for oer-assignments.json,       *)
(* normalizes the items found, sorts them and writes assets/assignments.json.*)
(*                                                                         *)
(* JavaScript strings are sequences of one-character strings, so that      *)
(* template concatenation, toLowerCase, replace(/\s+/g, "-") and           *)
(* localeCompare are computed and not assumed.  JSON values are tagged     *)
(* records [t, v]; `undefined` is the tag "undef".                         *)
(***************************************************************************)
EXTENDS Integers, Sequences, FiniteSets, TLC

VARIABLES
  token,      \* process.env.GH_TOKEN (line 5): Undef, "" or a string
  org,        \* process.env.ORG (line 6)
  allowlist,  \* parsed REPO_ALLOWLIST (line 7)
  blocklist,  \* parsed REPO_BLOCKLIST (line 8)
  orgSize,    \* the remote side: how many public repositories the organization has
  pc,         \* position of the main IIFE
  page,       \* listAllOrgRepos: `page`
  listed,     \* listAllOrgRepos: `repos` (references to repository descriptors)
  repos,      \* main: `repos`, the filtered list
  idx,        \* main: position of `for (const repo of repos)` (1-based)
  cand,       \* main: position of `for (const u of candidates)` (1-based)
  data,       \* main: `data`
  items,      \* main: `items`
  file,       \* assets/assignments.json: NoFile or the written catalog
  exit,       \* process exit code: -1 while running
  listLog,    \* history: the listing requests issued, with the response served
  log,        \* history: the probe requests issued for the current repository
  probed,     \* history: repositories for which a probe request was issued
  sources,    \* history: for each item pushed, the url, document and element it came from
  requested,  \* history: whether a network request was issued so far
  arg,        \* normalizeItem harness: the arguments
  ret         \* normalizeItem harness: the result

vars == <<token, org, allowlist, blocklist, orgSize, pc, page, listed, repos, idx,
          cand, data, items, file, exit, listLog, log, probed, sources, requested,
          arg, ret>>

-----------------------------------------------------------------------------
(* Bounds of the model *)

\* Largest number of full listing pages the organization fills.
MaxFullPages == 1
\* Largest number of comma-separated pieces in REPO_ALLOWLIST / REPO_BLOCKLIST.
MaxPieces == 1
\* Largest number of elements of a served `items` array.
MaxItems == 1
\* Largest number of fields set on a raw item handed to normalizeItem alone.
MaxFields == 2

-----------------------------------------------------------------------------
(* JavaScript strings *)

Upper == <<"A","B","C","D","E","F","G","H","I","J","K","L","M",
           "N","O","P","Q","R","S","T","U","V","W","X","Y","Z">>
Lower == <<"a","b","c","d","e","f","g","h","i","j","k","l","m",
           "n","o","p","q","r","s","t","u","v","w","x","y","z">>
Digits == <<"0","1","2","3","4","5","6","7","8","9">>
\* Characters matched by \s in a regular expression (those the model uses).
Whitespace == {" ", "\t", "\n"}

IndexOf(seq, c) ==
  IF \E i \in 1..Len(seq) : seq[i] = c
    THEN CHOOSE i \in 1..Len(seq) : seq[i] = c
    ELSE 0

\* String.prototype.toLowerCase
ToLowerChar(c) == IF IndexOf(Upper, c) > 0 THEN Lower[IndexOf(Upper, c)] ELSE c
toLowerCase(s) == [i \in 1..Len(s) |-> ToLowerChar(s[i])]

\* String.prototype.replace(/\s+/g, "-"): every maximal run of whitespace
\* becomes one hyphen.
RECURSIVE replaceWs(_)
replaceWs(s) ==
  IF s = <<>> THEN <<>>
  ELSE IF Head(s) \in Whitespace
    THEN IF Len(s) > 1 /\ s[2] \in Whitespace
           THEN replaceWs(Tail(s))
           ELSE <<"-">> \o replaceWs(Tail(s))
    ELSE <<Head(s)>> \o replaceWs(Tail(s))

\* String.prototype.trim
RECURSIVE trimStart(_)
trimStart(s) == IF s # <<>> /\ Head(s) \in Whitespace THEN trimStart(Tail(s)) ELSE s
RECURSIVE trimEnd(_)
trimEnd(s) ==
  IF s # <<>> /\ s[Len(s)] \in Whitespace THEN trimEnd(SubSeq(s, 1, Len(s) - 1)) ELSE s
trim(s) == trimEnd(trimStart(s))

\* Collation used by String.prototype.localeCompare: punctuation, then digits,
\* then letters; letters compare without case first, and lower case precedes
\* upper case only when the strings are otherwise equal.
Punct == <<"\t", "\n", " ", "-", ".", "/", ":">>
PrimaryRank(c) ==
  IF IndexOf(Punct, c) > 0 THEN IndexOf(Punct, c)
  ELSE IF IndexOf(Digits, c) > 0 THEN Len(Punct) + IndexOf(Digits, c)
  ELSE Len(Punct) + Len(Digits) + IndexOf(Lower, ToLowerChar(c))
CaseRank(c) == IF IndexOf(Upper, c) > 0 THEN 1 ELSE 0

\* Lexicographic comparison of two sequences of ranks: -1, 0 or 1.
RECURSIVE LexCmp(_, _)
LexCmp(a, b) ==
  IF a = <<>> /\ b = <<>> THEN 0
  ELSE IF a = <<>> THEN -1
  ELSE IF b = <<>> THEN 1
  ELSE IF Head(a) < Head(b) THEN -1
  ELSE IF Head(a) > Head(b) THEN 1
  ELSE LexCmp(Tail(a), Tail(b))

PrimaryKey(s) == [i \in 1..Len(s) |-> PrimaryRank(s[i])]
CaseKey(s) == [i \in 1..Len(s) |-> CaseRank(s[i])]

localeCompare(a, b) ==
  IF LexCmp(PrimaryKey(a), PrimaryKey(b)) # 0
    THEN LexCmp(PrimaryKey(a), PrimaryKey(b))
    ELSE LexCmp(CaseKey(a), CaseKey(b))

-----------------------------------------------------------------------------
(* JSON values and JavaScript operators on them *)

Undef == [t |-> "undef"]
JNull == [t |-> "null"]
JStr(s) == [t |-> "str", v |-> s]
JNum(n) == [t |-> "num", v |-> n]
JBool(b) == [t |-> "bool", v |-> b]
JArr(s) == [t |-> "arr", v |-> s]
JObj(f) == [t |-> "obj", v |-> f]
\* The outcome of an expression that throws.
Throw == [t |-> "throw"]

\* ToBoolean
Truthy(x) ==
  CASE x.t \in {"undef", "null"} -> FALSE
    [] x.t = "bool" -> x.v
    [] x.t = "num" -> x.v # 0
    [] x.t = "str" -> x.v # <<>>
    [] OTHER -> TRUE

\* a || b
Or(a, b) == IF Truthy(a) THEN a ELSE b
\* a ?? b
Coalesce(a, b) == IF a.t \in {"undef", "null"} THEN b ELSE a

\* Property read x.f on a value that is neither null nor undefined: an own
\* field of an object, `length` of an array or a string, undefined otherwise.
Get(x, f) ==
  CASE x.t = "obj" -> IF f \in DOMAIN x.v THEN x.v[f] ELSE Undef
    [] x.t \in {"arr", "str"} /\ f = "length" -> JNum(Len(x.v))
    [] OTHER -> Undef

\* Optional chaining x?.f
OptGet(x, f) == IF x.t \in {"undef", "null"} THEN Undef ELSE Get(x, f)

\* Array.isArray(x) ? x : []
ArrayOrEmpty(x) == IF x.t = "arr" THEN x ELSE JArr(<<>>)

\* The elements `for (const it of x)` visits: the elements of an array, the
\* characters of a string; anything else is not iterable.
Iterate(x) ==
  CASE x.t = "arr" -> x.v
    [] x.t = "str" -> [i \in 1..Len(x.v) |-> JStr(<<x.v[i]>>)]
    [] OTHER -> Throw

-----------------------------------------------------------------------------
(* String literals of the program and of the modelled inputs *)

sItem == <<"i","t","e","m">>
sLicense == <<"C","C","-","B","Y","-","4",".","0">>
sHttps == <<"h","t","t","p","s",":","/","/">>
sGithubIo == <<".","g","i","t","h","u","b",".","i","o","/">>
sGithubCom == <<"g","i","t","h","u","b",".","c","o","m","/">>
sFileName == <<"o","e","r","-","a","s","s","i","g","n","m","e","n","t","s",".","j","s","o","n">>
sDocs == <<"d","o","c","s","/">>
sAcme == <<"a","c","m","e">>
sDemo == <<"d","e","m","o">>
sLab == <<"l","a","b">>
sIntro == <<"I","n","t","r","o">>
sLabOne == <<"L","a","b"," ","\t","O","n","e">>
sEvil == <<"e","v","i","l">>
sTok == <<"t","o","k">>

-----------------------------------------------------------------------------
(* Configuration from the environment (lines 5-8) *)

\* !x for an environment variable: unset or empty.
Missing(x) == ~Truthy(x)

\* Array.prototype.includes on a list of strings.
includes(list, name) == \E i \in 1..Len(list) : list[i] = name

\* (process.env.X || "").split(",").map(s => s.trim()).filter(Boolean), given
\* the comma-separated pieces of the variable (an unset variable has none).
ParseList(pieces) ==
  SelectSeq([i \in 1..Len(pieces) |-> trim(pieces[i])], LAMBDA s : s # <<>>)

-----------------------------------------------------------------------------
(* normalizeItem (lines 56-77) *)

\* `https://${org}.github.io/${repo.name}/` (lines 63 and 89)
SiteBase(name) == sHttps \o org.v \o sGithubIo \o name \o <<"/">>

\* (it.title || "item").toLowerCase().replace(/\s+/g, "-"): a value that is
\* not a string has no toLowerCase method.
Slug(it) ==
  IF Or(Get(it, "title"), JStr(sItem)).t = "str"
    THEN JStr(replaceWs(toLowerCase(Or(Get(it, "title"), JStr(sItem)).v)))
    ELSE Throw

\* it.id || `${repo.name}-${slug}`: the template is evaluated only when it.id
\* is falsy.
ItemId(it, repo) ==
  IF Truthy(Get(it, "id")) THEN Get(it, "id")
  ELSE IF Slug(it) = Throw THEN Throw
  ELSE JStr(repo.name \o <<"-">> \o Slug(it).v)

\* A raw repo_name or repo_url takes the place of the repository's.
normalizeItemRawContext(it, repo) ==
  IF it.t \in {"undef", "null"} \/ ItemId(it, repo) = Throw THEN Throw
  ELSE [ id |-> ItemId(it, repo),
         title |-> Or(Get(it, "title"), JStr(repo.name)),
         course_code |-> Coalesce(Get(it, "course_code"), JNull),
         page_url |-> Or(Get(it, "page_url"),
                         Or(Get(it, "site_url"), JStr(SiteBase(repo.name)))),
         summary |-> Coalesce(Get(it, "summary"), JNull),
         topics |-> ArrayOrEmpty(Get(it, "topics")),
         software |-> ArrayOrEmpty(Get(it, "software")),
         keywords |-> ArrayOrEmpty(Get(it, "keywords")),
         license |-> Or(Get(it, "license"), JStr(sLicense)),
         learning_outcomes |-> ArrayOrEmpty(Get(it, "learning_outcomes")),
         blooms_verbs |-> ArrayOrEmpty(Get(it, "blooms_verbs")),
         blooms_levels |-> ArrayOrEmpty(Get(it, "blooms_levels")),
         repo_name |-> Or(Get(it, "repo_name"), JStr(repo.name)),
         repo_url |-> Or(Get(it, "repo_url"), JStr(repo.html_url)) ]

\* Reading a property of null or undefined throws; so does the id template
\* when it is reached with a title that is not a string.
normalizeItem(it, repo) ==
  IF it.t \in {"undef", "null"} \/ ItemId(it, repo) = Throw THEN Throw
  ELSE [ id |-> ItemId(it, repo),
         title |-> Or(Get(it, "title"), JStr(repo.name)),
         course_code |-> Coalesce(Get(it, "course_code"), JNull),
         page_url |-> Or(Get(it, "page_url"),
                         Or(Get(it, "site_url"), JStr(SiteBase(repo.name)))),
         summary |-> Coalesce(Get(it, "summary"), JNull),
         topics |-> ArrayOrEmpty(Get(it, "topics")),
         software |-> ArrayOrEmpty(Get(it, "software")),
         keywords |-> ArrayOrEmpty(Get(it, "keywords")),
         license |-> Or(Get(it, "license"), JStr(sLicense)),
         learning_outcomes |-> ArrayOrEmpty(Get(it, "learning_outcomes")),
         blooms_verbs |-> ArrayOrEmpty(Get(it, "blooms_verbs")),
         blooms_levels |-> ArrayOrEmpty(Get(it, "blooms_levels")),
         repo_name |-> JStr(repo.name),
         repo_url |-> JStr(repo.html_url) ]

ArrayFields == {"topics", "software", "keywords", "learning_outcomes",
                "blooms_verbs", "blooms_levels"}
\* The fields of a raw item that normalizeItem reads.
RawFields == {"id", "title", "course_code", "page_url", "site_url", "summary",
              "license"} \cup ArrayFields

-----------------------------------------------------------------------------
(* The remote side: the organization, the listing API and the sites *)

\* Page size of the listing requests (line 30).
per_page == 100

\* The repositories that publish a site; they are the last ones in full_name
\* order ("lab1", "lab2" after the "a001", "a002", ... that publish nothing).
Labs == {1, 2}

\* Sizes of the organization: around every page boundary, and the labs alone.
OrgSizes ==
  {k * per_page + d : k \in 0..MaxFullPages, d \in 0..1} \cup {Cardinality(Labs)}

\* Repository descriptors are referred to by their position in the
\* organization's listing (sort=full_name).
IsLab(j) == j > orgSize - Cardinality(Labs)
RepoName(j) ==
  IF IsLab(j)
    THEN sLab \o <<Digits[j - (orgSize - Cardinality(Labs)) + 1]>>
    ELSE <<"a", Digits[((j \div 100) % 10) + 1], Digits[((j \div 10) % 10) + 1],
           Digits[(j % 10) + 1]>>
Repo(j) ==
  [ name |-> RepoName(j),
    html_url |-> sHttps \o sGithubCom \o org.v \o <<"/">> \o RepoName(j) ]

Min(a, b) == IF a < b THEN a ELSE b
Max(a, b) == IF a > b THEN a ELSE b

\* The body of a successful answer to
\* /orgs/${org}/repos?per_page=${n}&page=${p}&type=public&sort=full_name
ApiPage(p, n) ==
  [i \in 1..Min(n, Max(0, orgSize - (p - 1) * n)) |-> (p - 1) * n + i]

\* How a request to the GitHub API can end (gh, lines 11-25).
GhOutcomes == {"ok", "notok", "neterr", "badjson"}

\* Raw items the sites serve.
rawFull ==
  JObj(("course_code" :> JStr(<<"B","1">>)) @@ ("title" :> JStr(<<"x">>)) @@
       ("repo_name" :> JStr(sEvil)) @@ ("repo_url" :> JStr(sEvil)))
rawEmpty == JObj(<<>>)
rawTitle == JObj(("title" :> JStr(sIntro)))
rawNumTitle == JObj(("title" :> JNum(5)))
Pool == {rawFull, rawEmpty, rawTitle, rawNumTitle}

ItemArrays == UNION {[1..n -> Pool] : n \in 1..MaxItems}
Docs ==
  {JObj(("items" :> JArr(a))) : a \in ItemArrays} \cup
  { JObj(<<>>),
    JObj(("items" :> JArr(<<>>))),
    JObj(("items" :> JStr(<<"a","b">>))),
    JObj(("items" :> JObj(("length" :> JNum(1))))) }

\* How a request to a site can end (fetchIfExists, lines 46-54).
FetchResponses ==
  {[kind |-> k] : k \in {"neterr", "notok", "badjson"}} \cup
  {[kind |-> "ok", body |-> d] : d \in Docs}

\* What the site of repository j can answer: only the labs publish one.
SiteResponses(j) ==
  IF IsLab(j) THEN FetchResponses ELSE {r \in FetchResponses : r.kind # "ok"}

\* How the fallback of lines 108-116 can end: gh throws, the answer has no
\* download_url, the download succeeds, the download fails.
FallbackOutcomes == {"ghthrows", "nourl", "downloaded", "downloadfails"}

\* The pieces between the commas of REPO_ALLOWLIST / REPO_BLOCKLIST.
Pieces == { <<>>, <<" ">>, sLab \o <<"1">>, <<" ">> \o sLab \o <<"1">> \o <<" ">> }
EnvLists == UNION {[1..n -> Pieces] : n \in 0..MaxPieces}
EnvValues == {Undef, JStr(<<>>), JStr(sTok), JStr(sAcme)}

-----------------------------------------------------------------------------
(* Helpers of the script *)

\* A name in both lists passes.
allowedBlockIgnored(name) ==
  IF Len(allowlist) # 0 /\ ~includes(allowlist, name) THEN FALSE
  ELSE IF Len(allowlist) = 0 /\ includes(blocklist, name) THEN FALSE
  ELSE TRUE

\* allowed (lines 40-44)
allowed(name) ==
  IF Len(allowlist) # 0 /\ ~includes(allowlist, name) THEN FALSE
  ELSE IF includes(blocklist, name) THEN FALSE
  ELSE TRUE

\* fetchIfExists (lines 46-54): null unless the response is ok and parses.
fetchIfExists(resp) == IF resp.kind = "ok" THEN resp.body ELSE JNull

\* candidates (lines 89-93)
Candidates(repo) ==
  << SiteBase(repo.name) \o sFileName,
     SiteBase(repo.name) \o sDocs \o sFileName >>

\* data?.items?.length (lines 98 and 101)
Qualifies(d) == Truthy(OptGet(OptGet(d, "items"), "length"))

\* The comparator of items.sort (lines 120-123).  The receivers of
\* localeCompare are strings for every item the modelled sites serve.
ItemCmpCodeOnly(a, b) ==
  localeCompare(Or(a.course_code, JStr(<<>>)).v, Or(b.course_code, JStr(<<>>)).v)

ItemCmp(a, b) ==
  IF localeCompare(Or(a.course_code, JStr(<<>>)).v, Or(b.course_code, JStr(<<>>)).v) # 0
    THEN localeCompare(Or(a.course_code, JStr(<<>>)).v, Or(b.course_code, JStr(<<>>)).v)
    ELSE localeCompare(a.title.v, b.title.v)

\* Array.prototype.sort with a comparator: a stable sort (insertion of each
\* element after the last one that does not compare greater).
RECURSIVE InsertSorted(_, _)
InsertSorted(sorted, x) ==
  IF sorted = <<>> THEN <<x>>
  ELSE IF ItemCmp(sorted[Len(sorted)], x) <= 0 THEN Append(sorted, x)
  ELSE Append(InsertSorted(SubSeq(sorted, 1, Len(sorted) - 1), x), sorted[Len(sorted)])

RECURSIVE SortItems(_)
SortItems(s) ==
  IF s = <<>> THEN <<>>
  ELSE InsertSorted(SortItems(SubSeq(s, 1, Len(s) - 1)), s[Len(s)])

-----------------------------------------------------------------------------
(* The run: the main IIFE (lines 79-137) *)

NoFile == [written |-> FALSE]
Pending == [t |-> "pending"]

config == <<token, org, allowlist, blocklist, orgSize>>
harness == <<arg, ret>>

Init ==
  /\ token \in EnvValues \ {JStr(sAcme)}
  /\ org \in EnvValues \ {JStr(sTok)}
  /\ allowlist \in {ParseList(p) : p \in EnvLists}
  /\ blocklist \in {ParseList(p) : p \in EnvLists}
  /\ orgSize \in OrgSizes
  /\ pc = "start"
  /\ page = 1
  /\ listed = <<>>
  /\ repos = <<>>
  /\ idx = 1
  /\ cand = 1
  /\ data = JNull
  /\ items = <<>>
  /\ file = NoFile
  /\ exit = -1
  /\ listLog = <<>>
  /\ log = <<>>
  /\ probed = {}
  /\ sources = <<>>
  /\ requested = FALSE
  /\ arg = JNull
  /\ ret = Pending

\* The catch handler (lines 134-137): console.error, process.exit(1).
Fatal == pc' = "done" /\ exit' = 1

\* The check of line 80 without the organization.
ConfigMissingTokenOnly == Missing(token)

\* Line 80: !token || !org
ConfigMissing == Missing(token) \/ Missing(org)

\* Lines 80-82.
CheckConfig ==
  /\ pc = "start"
  /\ IF ConfigMissing
       THEN Fatal /\ page' = page
       ELSE pc' = "list" /\ page' = 1 /\ exit' = exit
  /\ UNCHANGED <<config, listed, repos, idx, cand, data, items, file, listLog, log,
                 probed, sources, requested, harness>>

\* gh when it answers a failure with an empty list.
ghSwallowsFailure(outcome, body) == [threw |-> FALSE, value |-> body]

\* gh (lines 11-25): throws when fetch rejects, when the response is not ok
\* and when the body does not parse; returns the parsed body otherwise.
gh(outcome, body) ==
  IF outcome = "ok" THEN [threw |-> FALSE, value |-> body] ELSE [threw |-> TRUE]

\* The loop stops one page late: a full page ends it too.
LastPageOrFull(batch) == Len(batch) <= per_page

\* Line 34: batch.length < per_page
LastPage(batch) == Len(batch) < per_page

\* One turn of the loop of listAllOrgRepos (lines 31-36); on the last page,
\* its return and the filter of line 84.
ListPage(outcome) ==
  /\ pc = "list"
  /\ requested' = TRUE
  /\ listLog' = Append(listLog, [page |-> page, outcome |-> outcome])
  /\ LET r == gh(outcome, IF outcome = "ok" THEN ApiPage(page, per_page) ELSE <<>>)
     IN IF r.threw
          THEN Fatal /\ UNCHANGED <<page, listed, repos>>
          ELSE /\ listed' = listed \o r.value
               /\ exit' = exit
               /\ IF LastPage(r.value)
                    THEN /\ repos' = SelectSeq(listed', LAMBDA j : allowed(RepoName(j)))
                         /\ pc' = IF repos' = <<>> THEN "write" ELSE "probe"
                         /\ page' = page
                    ELSE /\ page' = page + 1
                         /\ pc' = pc
                         /\ repos' = repos
  /\ UNCHANGED <<config, idx, cand, data, items, file, log, probed, sources, harness>>

\* One turn of the candidate loop (lines 96-99).
Probe(resp) ==
  /\ pc = "probe"
  /\ resp \in SiteResponses(repos[idx])
  /\ requested' = TRUE
  /\ probed' = probed \cup {repos[idx]}
  /\ data' = fetchIfExists(resp)
  /\ log' = Append(log, [cand |-> cand, url |-> Candidates(Repo(repos[idx]))[cand],
                          doc |-> data'])
  /\ IF Qualifies(data') \/ cand = Len(Candidates(Repo(repos[idx])))
       THEN pc' = "check" /\ cand' = cand
       ELSE pc' = pc /\ cand' = cand + 1
  /\ UNCHANGED <<config, page, listed, repos, idx, items, file, exit, listLog, sources,
                 harness>>

\* The next repository of `for (const repo of repos)`, or the end of the loop.
NextRepo ==
  /\ idx' = idx + 1
  /\ cand' = 1
  /\ data' = JNull
  /\ log' = <<>>
  /\ pc' = IF idx + 1 > Len(repos) THEN "write" ELSE "probe"
  /\ exit' = exit

\* Lines 101-104: the items of the document are normalized and pushed one by
\* one; an exception leaves the loop and the run with the items pushed so far.
Emit ==
  /\ pc = "check"
  /\ Qualifies(data)
  /\ LET its == Get(data, "items")
         iterable == its.t \in {"arr", "str"}
         elems == IF iterable THEN Iterate(its) ELSE <<>>
         norm == [k \in 1..Len(elems) |-> normalizeItem(elems[k], Repo(repos[idx]))]
         bad == {k \in 1..Len(elems) : norm[k] = Throw}
         n == IF bad = {} THEN Len(elems)
              ELSE (CHOOSE k \in bad : \A m \in bad : k <= m) - 1
     IN /\ items' = items \o SubSeq(norm, 1, n)
        /\ sources' = sources \o
             [k \in 1..n |-> [url |-> log[Len(log)].url, doc |-> log[Len(log)].doc,
                              raw |-> elems[k]]]
        /\ IF iterable /\ bad = {}
             THEN NextRepo
             ELSE Fatal /\ UNCHANGED <<idx, cand, data, log>>
  /\ UNCHANGED <<config, page, listed, repos, file, listLog, probed, requested, harness>>

\* Lines 106-116: the contents request for oer.yml, whose result is dropped
\* and whose exceptions are caught.
Fallback(outcome) ==
  /\ pc = "check"
  /\ ~Qualifies(data)
  /\ requested' = TRUE
  /\ NextRepo
  /\ UNCHANGED <<config, page, listed, repos, items, file, listLog, probed, sources,
                 harness>>

\* Lines 119-133: sort, write the catalog, log the summary; the process then
\* ends with exit code 0.  The generated_at timestamp is left out of the
\* written record.
WriteCatalog ==
  /\ pc = "write"
  /\ items' = SortItems(items)
  /\ file' = [written |-> TRUE, org |-> org, item_count |-> Len(items'),
              items |-> items']
  /\ pc' = "done"
  /\ exit' = 0
  /\ UNCHANGED <<config, page, listed, repos, idx, cand, data, listLog, log, probed,
                 sources, requested, harness>>

Next ==
  \/ CheckConfig
  \/ \E outcome \in GhOutcomes : ListPage(outcome)
  \/ \E resp \in FetchResponses : Probe(resp)
  \/ Emit
  \/ \E outcome \in FallbackOutcomes : Fallback(outcome)
  \/ WriteCatalog

Spec == Init /\ [][Next]_vars

-----------------------------------------------------------------------------
(* normalizeItem on its own: any raw object with a few fields of any JSON type *)

FieldValues ==
  { JNull, JStr(<<>>), JStr(sIntro), JStr(sLabOne), JNum(0), JNum(5), JBool(TRUE),
    JArr(<<>>), JArr(<<JStr(<<"x">>)>>), JObj(<<>>) }
RawObjects ==
  UNION {[F -> FieldValues] : F \in {G \in SUBSET RawFields : Cardinality(G) <= MaxFields}}
HarnessRepo == [name |-> sDemo, html_url |-> sHttps \o sGithubCom \o sAcme \o <<"/">> \o sDemo]

InitNormalize ==
  /\ token = JStr(sTok)
  /\ org = JStr(sAcme)
  /\ allowlist = <<>>
  /\ blocklist = <<>>
  /\ orgSize = 0
  /\ pc = "harness"
  /\ page = 1
  /\ listed = <<>>
  /\ repos = <<>>
  /\ idx = 1
  /\ cand = 1
  /\ data = JNull
  /\ items = <<>>
  /\ file = NoFile
  /\ exit = -1
  /\ listLog = <<>>
  /\ log = <<>>
  /\ probed = {}
  /\ sources = <<>>
  /\ requested = FALSE
  /\ arg \in {[it |-> JObj(f), repo |-> HarnessRepo] : f \in RawObjects}
  /\ ret = Pending

NormalizeCall ==
  /\ pc = "harness"
  /\ ret = Pending
  /\ ret' = normalizeItem(arg.it, arg.repo)
  /\ UNCHANGED <<config, pc, page, listed, repos, idx, cand, data, items, file, exit,
                 listLog, log, probed, sources, requested, arg>>

NextNormalize == NormalizeCall

SpecNormalize == InitNormalize /\ [][NextNormalize]_vars

-----------------------------------------------------------------------------
(* Vocabulary of the properties *)

Range(s) == {s[i] : i \in 1..Len(s)}

\* Some listing request was answered with a non-success status.
ListingFailed == \E k \in 1..Len(listLog) : listLog[k].outcome = "notok"
\* Every listing request so far was answered successfully.
ListingSucceeded == \A k \in 1..Len(listLog) : listLog[k].outcome = "ok"
\* listAllOrgRepos has returned and line 84 has filtered its result.
Filtered == listLog # <<>> /\ ListingSucceeded /\ pc # "list"
\* The run has ended.
Ended == pc = "done"

\* The filter as the specification words it.
PassesFilter(name) ==
  /\ allowlist = <<>> \/ name \in Range(allowlist)
  /\ name \notin Range(blocklist)

\* The pages 1..k of the listing, one after the other.
RECURSIVE ConcatPages(_)
ConcatPages(k) == IF k = 0 THEN <<>> ELSE ConcatPages(k - 1) \o ApiPage(k, per_page)

\* A parsed document with a non-empty `items` array.
HasItemsArray(d) ==
  /\ d.t = "obj"
  /\ "items" \in DOMAIN d.v
  /\ d.v["items"].t = "arr"
  /\ d.v["items"].v # <<>>

\* The repository name inside a site url https://<org>.github.io/<name>/...
NameOfUrl(u) ==
  LET rest == SubSeq(u, Len(sHttps \o org.v \o sGithubIo) + 1, Len(u))
  IN SubSeq(rest, 1, IndexOf(rest, "/") - 1)

\* The item carries the context of the listed repository called `name`, and
\* that repository passes the filter.
FromRepoOfUrl(item, name) ==
  /\ PassesFilter(name)
  /\ item.repo_name = JStr(name)
  /\ \E j \in 1..orgSize :
       /\ RepoName(j) = name
       /\ item.repo_url = JStr(Repo(j).html_url)

\* The sort keys of a catalog item.
CodeKey(item) == IF item.course_code = JNull THEN <<>> ELSE item.course_code.v
Ordered(a, b) ==
  \/ localeCompare(CodeKey(a), CodeKey(b)) < 0
  \/ /\ localeCompare(CodeKey(a), CodeKey(b)) = 0
     /\ localeCompare(a.title.v, b.title.v) <= 0

-----------------------------------------------------------------------------
(* Properties *)

\* C1: a non-success answer of the listing API on any page ends the run with
\* exit code 1 and without the output file; and the output file exists only
\* once every repository that passed the filter has been probed.
C1_NoPartialCatalog ==
  /\ ListingFailed => (Ended /\ exit = 1 /\ file = NoFile)
  /\ file # NoFile =>
       /\ Filtered
       /\ idx > Len(repos)
       /\ probed = Range(repos)
\* A run in which the second listing page was refused.
C1_Witness ==
  /\ Len(listLog) = 2
  /\ listLog[2].outcome = "notok"
  /\ Ended

\* C2: with the configuration present and every listing page answered
\* successfully, nothing a site or the contents request answers stops the run:
\* it ends with the output file written and exit code 0.
C2_ProbeNeverFatal ==
  (Ended /\ ~Missing(token) /\ ~Missing(org) /\ ListingSucceeded)
    => (exit = 0 /\ file # NoFile)

\* C3: normalizeItem returns, for every JSON object, a complete item: it never
\* throws, every array field is an array, and {} under repository "demo" of
\* organization "acme" gives the documented defaults.
C3_NormalizeTotal ==
  ret # Pending =>
    /\ ret # Throw
    /\ \A f \in ArrayFields : ret[f].t = "arr"
    /\ Truthy(ret.id) /\ Truthy(ret.title) /\ Truthy(ret.page_url) /\ Truthy(ret.license)
    /\ arg.it = JObj(<<>>) =>
         /\ ret.id = JStr(sDemo \o <<"-">> \o sItem)
         /\ ret.title = JStr(sDemo)
         /\ ret.license = JStr(sLicense)
         /\ ret.page_url = JStr(sHttps \o sAcme \o sGithubIo \o sDemo \o <<"/">>)
         /\ \A f \in ArrayFields : ret[f] = JArr(<<>>)

\* C4: a listed repository is kept exactly when (the allow-list is empty or
\* names it) and the block-list does not name it.
C4_FilterRule ==
  Filtered =>
    LET kept == Range(repos)
    IN \A j \in 1..orgSize : (j \in kept) <=> PassesFilter(RepoName(j))
\* A listed repository named in both lists has been dropped.
C4_Witness ==
  /\ Filtered
  /\ \E j \in 1..orgSize :
       /\ RepoName(j) \in Range(allowlist) \cap Range(blocklist)
       /\ j \notin Range(repos)

\* C5: the listing requests are pages 1, 2, 3, ... in order; a further page is
\* requested only after a page of exactly per_page entries; the listing ends
\* with the first shorter page, and its result is pages 1..k one after the
\* other: a full page 1 and a short page 2 make exactly two requests.
C5_Pagination ==
  /\ \A k \in 1..Len(listLog) : listLog[k].page = k
  /\ \A k \in 1..(Len(listLog) - 1) :
       listLog[k].outcome = "ok" /\ Len(ApiPage(k, per_page)) = per_page
  /\ Filtered =>
       /\ Len(ApiPage(Len(listLog), per_page)) < per_page
       /\ listed = ConcatPages(Len(listLog))
       /\ (orgSize >= per_page /\ orgSize < 2 * per_page) => Len(listLog) = 2
\* A listing of a full page and a page of one entry has returned.
C5_Witness ==
  /\ Filtered
  /\ orgSize = per_page + 1
  /\ Len(listLog) = 2
  /\ Len(listed) = per_page + 1

\* C6: the candidates are requested in order (site root, then docs/); no
\* request follows a candidate whose document has a non-empty items array;
\* the probe ends early only at such a candidate, and the repository's items
\* are taken only from such a document.
C6_FirstQualifyingCandidate ==
  /\ \A k \in 1..Len(log) :
       /\ log[k].cand = k
       /\ log[k].url = Candidates(Repo(repos[idx]))[k]
       /\ k < Len(log) => ~HasItemsArray(log[k].doc)
  /\ pc = "check" =>
       /\ HasItemsArray(data) \/ Len(log) = Len(Candidates(Repo(repos[idx])))
       /\ Qualifies(data) => HasItemsArray(data)

\* C7: with the token or the organization unset or empty, the run ends with
\* exit code 1 before any network request and without the output file.
C7_MissingConfigAborts ==
  (Missing(token) \/ Missing(org)) =>
    /\ ~requested
    /\ listLog = <<>> /\ log = <<>> /\ probed = {}
    /\ file = NoFile
    /\ pc # "start" => (Ended /\ exit = 1)
\* A run that ended for want of the organization alone.
C7_Witness == Ended /\ ~Missing(token) /\ Missing(org)

\* C8: the items of the written catalog ascend by (course_code or "", title),
\* so every item without course_code precedes every item with one.
C8_CatalogSorted ==
  file # NoFile =>
    /\ \A i \in 1..(Len(file.items) - 1) : Ordered(file.items[i], file.items[i + 1])
    /\ \A i, j \in 1..Len(file.items) :
         (file.items[i].course_code = JNull /\ CodeKey(file.items[j]) # <<>>) => i < j
\* A written catalog whose order differs from the order of discovery.
C8_Witness ==
  /\ file # NoFile
  /\ Len(file.items) = 2
  /\ file.items[1].repo_name = JStr(RepoName(orgSize))
  /\ file.items[2].repo_name = JStr(RepoName(orgSize - 1))
  /\ file.items[1].course_code = JNull
  /\ file.items[2].course_code # JNull

\* C9: every item carries the name and html_url of the repository from whose
\* site its raw item was fetched, that repository passed the filter, and the
\* raw item's own repo_name / repo_url do not show.
C9_RepoContext ==
  /\ file = NoFile =>
       /\ Len(items) = Len(sources)
       /\ \A k \in 1..Len(items) : FromRepoOfUrl(items[k], NameOfUrl(sources[k].url))
  /\ file # NoFile =>
       /\ Len(file.items) = Len(sources)
       /\ \A i \in 1..Len(file.items) :
            \E k \in 1..Len(sources) :
              FromRepoOfUrl(file.items[i], NameOfUrl(sources[k].url))
\* A written catalog with an item whose raw item named another repository.
C9_Witness ==
  /\ file # NoFile
  /\ \E k \in 1..Len(sources) :
       /\ Get(sources[k].raw, "repo_name") = JStr(sEvil)
       /\ Get(sources[k].raw, "repo_url") = JStr(sEvil)

\* C10: the written catalog holds one item for each raw item of the first
\* candidate document with a non-empty items array of each filtered
\* repository, and nothing else; item_count is the number of its items.
C10_CatalogContent ==
  file # NoFile =>
    /\ file.item_count = Len(file.items)
    /\ Len(file.items) = Len(sources)
    /\ \A k \in 1..Len(sources) :
         /\ HasItemsArray(sources[k].doc)
         /\ sources[k].raw \in Range(sources[k].doc.v["items"].v)

====
